---- MODULE Spec2Model ----
(***************************************************************************)
(* The manifest post-processor (post-processor/manifest/post-processor.go). *)
(* Each PostProcess invocation is an independent OS process; all of them    *)
(* share one output path, hence one manifest file and one sentinel file     *)
(* (output path + ".lock").  A step of the model is one system call of one  *)
(* invocation together with the local computation that precedes it.         *)
(* ioutil.ReadFile, ioutil.WriteFile, os.OpenFile(O_EXCL) and os.Remove     *)
(* are each taken as one atomic step on the file system.                    *)
(***************************************************************************)
EXTENDS Integers, Sequences, FiniteSets, TLC

\* Number of PostProcess invocations sharing the output path.
NProcs == 3
\* Number of invocations run one after the other or overlapping in SpecMerge.
NMerge == 2
\* Number of invocations that may be killed before they return.
MaxCrashes == 1
\* for i := 0; i < 3; i++  (lockFile)
MaxAttempts == 3

Procs == 1..NProcs
\* Values of the PACKER_RUN_UUID environment variable ("" when unset).
RunIds == {"", "R1"}

VARIABLES
    hcl,          \* strings.HasSuffix(p.config.OutputPath, ".pkrvars.hcl")
    lock,         \* the sentinel file OutputPath + ".lock" exists
    owner,        \* the invocation whose O_EXCL create made the existing sentinel (0: none of them)
    file,         \* the content of the file at OutputPath
    pc,           \* each invocation's position in PostProcess
    cfg,          \* each invocation's p.config and environment
    i,            \* lockFile's loop counter
    lockRes,      \* how lockFile's loop ended: "created" (the break), "gaveup" (3 failures), "none" (not yet)
    contents,     \* PostProcess's local `contents`
    ret,          \* what PostProcess returned: (artifact, keep, forceOverride, err)
    lastWriter,   \* the invocation whose WriteFile succeeded last (0: none yet)
    initLock,     \* the sentinel existed before the first invocation started
    initFile,     \* the manifest file before the first invocation started
    crashes       \* invocations killed so far

vars == <<hcl, lock, owner, file, pc, cfg, i, lockRes, contents, ret,
          lastWriter, initLock, initFile, crashes>>

-----------------------------------------------------------------------------
(* File contents *)

Absent  == [kind |-> "absent"]     \* no file at the path (os.IsNotExist)
Empty   == [kind |-> "empty"]      \* a file of length 0
Garbage == [kind |-> "garbage"]    \* bytes that parse neither as JSON nor as HCL

\* type ManifestFile struct { Builds []Artifact; LastRunUUID string }
ManifestFile(builds, last) ==
    [kind |-> "json", builds |-> builds, last_run_uuid |-> last]

\* The Artifact record PostProcess builds from source.Id(), the build's
\* names and PACKER_RUN_UUID.
Artifact(p) ==
    [artifact_id |-> p, builder_type |-> cfg[p].btype,
     build_name |-> cfg[p].bname, packer_run_uuid |-> cfg[p].run]

\* json.Unmarshal(contents, manifestFile), guarded by len(contents) > 0.
\* Gives the document, or "error" when the bytes do not parse.
Unmarshal(c) ==
    IF c.kind \in {"absent", "empty"} THEN ManifestFile(<<>>, "")
    ELSE IF c.kind = "json" THEN ManifestFile(c.builds, c.last_run_uuid)
    ELSE [kind |-> "error"]

\* The comparison inverted: truncate when the run is the same.
TruncatesSameRun(p, m) == cfg[p].force /\ cfg[p].run = m.last_run_uuid

\* The run identifier not looked at: -force always truncates.
TruncatesOnForce(p, m) == cfg[p].force

\* if p.config.PackerForce && os.Getenv("PACKER_RUN_UUID") != manifestFile.LastRunUUID
Truncates(p, m) == cfg[p].force /\ cfg[p].run # m.last_run_uuid

\* A merge that writes the new record alone.
MergeDropsPrior(p, m) == [kind |-> "json", builds |-> <<Artifact(p)>>,
                          last_run_uuid |-> cfg[p].run]

\* A merge that sets last_run_uuid only when it truncates.
MergeKeepsLastRun(p, m) ==
    IF Truncates(p, m)
    THEN [kind |-> "json", builds |-> <<Artifact(p)>>, last_run_uuid |-> cfg[p].run]
    ELSE [kind |-> "json", builds |-> Append(m.builds, Artifact(p)),
          last_run_uuid |-> m.last_run_uuid]

\* The truncation, the append and the new last_run_uuid.
Merge(p, m) ==
    LET base == IF Truncates(p, m) THEN ManifestFile(<<>>, "") ELSE m
    IN  ManifestFile(Append(base.builds, Artifact(p)), cfg[p].run)

-----------------------------------------------------------------------------
(* The structured-text variant: values, documents, setMapVal *)

\* A decoded value (interface{}): a string, a number, a bool, a list or a
\* map[string]interface{}.
Str(s) == [t |-> "str", s |-> s]
Num(n) == [t |-> "num", n |-> n]
Bool(b) == [t |-> "bool", b |-> b]
List(l) == [t |-> "list", l |-> l]
Map(f) == [t |-> "map", m |-> f]
EmptyMap == <<>>

\* An attribute's expression: a constant written in the form hclwrite emits
\* ("canon") or in another one (a heredoc, 1.0 for 1, ...), or an expression
\* that does not evaluate without variables (buildAttr.Expr.Value(nil) has
\* errors and gives an unknown value).
Lit(form, v) == [e |-> "lit", form |-> form, val |-> v]
Var == [e |-> "var"]

\* A parsed document: its top-level attributes, name -> expression.
HclFile(attrs) == [kind |-> "hcl", attrs |-> attrs]

Panic == [ok |-> FALSE]
Ok(f) == [ok |-> TRUE, m |-> f]

\* setMapVal(target, toSet, keys...): descends or creates the maps named by
\* all keys but the last, skipping empty ones, and stores toSet at the last
\* key.  value.(map[string]interface{}) panics on a value that is no map.
\* A setMapVal that creates a map under an empty key instead of skipping it.
RECURSIVE setMapValNoSkip(_, _, _)
setMapValNoSkip(target, toSet, keys) ==
    IF Len(keys) = 1 THEN Ok((keys[1] :> toSet) @@ target)
    ELSE LET value == IF keys[1] \in DOMAIN target THEN target[keys[1]] ELSE Map(EmptyMap)
         IN  IF value.t # "map" THEN Panic
             ELSE LET sub == setMapValNoSkip(value.m, toSet, Tail(keys))
                  IN  IF sub.ok THEN Ok((keys[1] :> Map(sub.m)) @@ target) ELSE Panic

\* A setMapVal that merges the new entry's keys into the map found at the
\* last key.
RECURSIVE setMapValMerges(_, _, _)
setMapValMerges(target, toSet, keys) ==
    IF Len(keys) = 1
    THEN IF keys[1] \in DOMAIN target /\ target[keys[1]].t = "map" /\ toSet.t = "map"
         THEN Ok((keys[1] :> Map(toSet.m @@ target[keys[1]].m)) @@ target)
         ELSE Ok((keys[1] :> toSet) @@ target)
    ELSE IF keys[1] = "" THEN setMapValMerges(target, toSet, Tail(keys))
    ELSE LET value == IF keys[1] \in DOMAIN target THEN target[keys[1]] ELSE Map(EmptyMap)
         IN  IF value.t # "map" THEN Panic
             ELSE LET sub == setMapValMerges(value.m, toSet, Tail(keys))
                  IN  IF sub.ok THEN Ok((keys[1] :> Map(sub.m)) @@ target) ELSE Panic

RECURSIVE setMapVal(_, _, _)
setMapVal(target, toSet, keys) ==
    IF Len(keys) = 1 THEN Ok((keys[1] :> toSet) @@ target)
    ELSE IF keys[1] = "" THEN setMapVal(target, toSet, Tail(keys))
    ELSE LET value == IF keys[1] \in DOMAIN target THEN target[keys[1]] ELSE Map(EmptyMap)
         IN  IF value.t # "map" THEN Panic
             ELSE LET sub == setMapVal(value.m, toSet, Tail(keys))
                  IN  IF sub.ok THEN Ok((keys[1] :> Map(sub.m)) @@ target) ELSE Panic

\* A parse that falls back to an empty document on bytes it cannot parse.
ParseLenient(c) ==
    IF c.kind = "hcl" THEN [kind |-> "hcl", attrs |-> c.attrs]
    ELSE [kind |-> "hcl", attrs |-> <<>>]

\* hclparse.NewParser().ParseHCL(contents, path) and file.Body.JustAttributes():
\* the attributes, or "error" when the bytes do not parse.
ParseHCL(c) ==
    IF c.kind \in {"absent", "empty"} THEN HclFile(EmptyMap)
    ELSE IF c.kind = "hcl" THEN HclFile(c.attrs)
    ELSE [kind |-> "error"]

\* The entry Hcl2Manifest builds: artifact_id, packer_run_uuid, and
\* custom_data when len(p.config.CustomData) > 0.
Entry(p) ==
    Map([artifact_id |-> Str(p), packer_run_uuid |-> Str(cfg[p].run)]
        @@ IF cfg[p].custom THEN [custom_data |-> Map([k |-> Str("v")])] ELSE <<>>)

\* The manifest mapping Hcl2Manifest starts from: the `manifest` attribute,
\* when it is found and evaluates, converted and asserted to be a map (a
\* panic when it is not), else an empty map.
LoadManifest(attrs) ==
    IF "manifest" \in DOMAIN attrs /\ attrs["manifest"].e = "lit"
    THEN IF attrs["manifest"].val.t = "map"
         THEN Ok(attrs["manifest"].val.m)
         ELSE Panic
    ELSE Ok(EmptyMap)

\* A rewrite that emits the manifest attribute only.
ReEmitNothing(attrs) == Ok(EmptyMap)

\* for key, val := range attrs { v, _ := val.Expr.Value(nil);
\* wBody.SetAttributeValue(key, v) }: each attribute written again from its
\* value.  hclwrite cannot produce tokens for an unknown value and panics.
ReEmit(attrs) ==
    IF \E k \in DOMAIN attrs : attrs[k].e = "var" THEN Panic
    ELSE Ok([k \in DOMAIN attrs |-> Lit("canon", attrs[k].val)])

\* An Hcl2Manifest that starts from an empty mapping under -force, as the
\* JSON variant does.
Hcl2MergeForceResets(p, attrs) ==
    LET loaded == IF cfg[p].force THEN Ok(EmptyMap) ELSE LoadManifest(attrs) IN
    IF ~loaded.ok THEN Panic
    ELSE LET set == setMapVal(loaded.m, Entry(p),
                              <<cfg[p].group, cfg[p].btype, cfg[p].bname>>)
             out == ReEmit(attrs)
         IN  IF set.ok /\ out.ok
             THEN Ok(("manifest" :> Lit("canon", Map(set.m))) @@ out.m)
             ELSE Panic

\* The document Hcl2Manifest writes: the merged mapping, every attribute
\* re-emitted, then `manifest` set to the mapping.  Panic when a type
\* assertion fails or an attribute cannot be written.
Hcl2Merge(p, attrs) ==
    LET loaded == LoadManifest(attrs) IN
    IF ~loaded.ok THEN Panic
    ELSE LET set == setMapVal(loaded.m, Entry(p),
                              <<cfg[p].group, cfg[p].btype, cfg[p].bname>>)
             out == ReEmit(attrs)
         IN  IF set.ok /\ out.ok
             THEN Ok(("manifest" :> Lit("canon", Map(set.m))) @@ out.m)
             ELSE Panic

-----------------------------------------------------------------------------
(* Return values *)

NoReturn == [artifact |-> "none", keep |-> FALSE, forceOverride |-> FALSE, err |-> "none"]
Return(a, k, f, e) == [artifact |-> a, keep |-> k, forceOverride |-> f, err |-> e]

\* What an invocation is configured with: -force, PACKER_RUN_UUID, and the
\* build group, builder type and build name.
Configs ==
    [force : BOOLEAN, run : RunIds, group : {"g"}, btype : {"t"}, bname : {"n"},
     custom : {FALSE}]
PlainConfigs ==
    [force : {FALSE}, run : {"R1"}, group : {"g"}, btype : {"t"}, bname : {"n"},
     custom : {FALSE}]
NoConfig ==
    [force |-> FALSE, run |-> "", group |-> "", btype |-> "", bname |-> "",
     custom |-> FALSE]

\* Documents a structured-text manifest may hold before the first invocation.
InitHclFiles ==
    { HclFile([other |-> Lit("canon", Str("x"))]),
      HclFile([manifest |-> Lit("canon", Str("x"))]) }

\* A JSON manifest left by an earlier run of packer.
PriorManifest ==
    ManifestFile(<<[artifact_id |-> 0, builder_type |-> "t", build_name |-> "n",
                    packer_run_uuid |-> "R1"]>>, "R1")

-----------------------------------------------------------------------------
Init ==
    /\ hcl \in BOOLEAN
    /\ lock \in BOOLEAN
    /\ initLock = lock
    /\ owner = 0
    /\ file \in {Absent, Garbage} \cup (IF hcl THEN InitHclFiles ELSE {})
    /\ initFile = file
    /\ pc = [p \in Procs |-> "idle"]
    /\ cfg = [p \in Procs |-> NoConfig]
    /\ i = [p \in Procs |-> 0]
    /\ lockRes = [p \in Procs |-> "none"]
    /\ contents = [p \in Procs |-> Absent]
    /\ ret = [p \in Procs |-> NoReturn]
    /\ lastWriter = 0
    /\ crashes = 0

\* PostProcess is entered with a configuration of C: the custom data is
\* interpolated, and an error there returns before lockFile is called.
\* Invocations are interchangeable, so they are numbered in the order they
\* start.
StartWith(p, C) ==
    /\ pc[p] = "idle"
    /\ IF p = 1 THEN TRUE ELSE pc[p - 1] # "idle"
    /\ \E c \in C, interpolates \in BOOLEAN :
        /\ IF interpolates
           THEN /\ cfg' = [cfg EXCEPT ![p] = c]
                /\ pc' = [pc EXCEPT ![p] = "lock"]
                /\ ret' = ret
           ELSE /\ cfg' = cfg
                /\ pc' = [pc EXCEPT ![p] = "done"]
                /\ ret' = [ret EXCEPT ![p] = Return("nil", FALSE, FALSE, "interpolate")]
    /\ UNCHANGED <<hcl, lock, owner, file, i, lockRes, contents, lastWriter, initLock, initFile, crashes>>

Start(p) == StartWith(p, Configs)

StartPlain(p) == StartWith(p, PlainConfigs)

\* A create without O_EXCL: it succeeds whether or not the sentinel exists.
OpenNoExcl == TRUE

\* os.OpenFile(lockFilename, os.O_RDWR|os.O_CREATE|os.O_EXCL, 0600) returns
\* no error: the sentinel does not exist yet.
OpenFileExcl == ~lock

\* An off-by-one loop bound: i <= 3.
RetryOffByOne(p) == i[p] + 1 <= MaxAttempts

\* i++; i < 3: the loop goes on to another attempt.
Retry(p) == i[p] + 1 < MaxAttempts

\* A lockFile that takes the sentinel over on its last failed attempt.
LockAttemptSteals(p) ==
    /\ pc[p] = "lock"
    /\ IF OpenFileExcl \/ ~Retry(p)
       THEN /\ lock' = TRUE
            /\ owner' = p
            /\ lockRes' = [lockRes EXCEPT ![p] = "created"]
            /\ i' = [i EXCEPT ![p] = 0]
            /\ pc' = [pc EXCEPT ![p] = "read"]
       ELSE /\ i' = [i EXCEPT ![p] = i[p] + 1]
            /\ UNCHANGED <<pc, lockRes, lock, owner>>
    /\ UNCHANGED <<hcl, file, cfg, contents, ret, lastWriter, initLock, initFile, crashes>>

\* One iteration of lockFile's loop: os.OpenFile(O_RDWR|O_CREATE|O_EXCL)
\* creates the sentinel and breaks, or fails and counts.  After the loop
\* lockFile returns the cleanup, which PostProcess defers; i goes out of
\* scope.
LockAttempt(p) ==
    /\ pc[p] = "lock"
    /\ IF OpenFileExcl
       THEN /\ lock' = TRUE
            /\ owner' = p
            /\ lockRes' = [lockRes EXCEPT ![p] = "created"]
            /\ i' = [i EXCEPT ![p] = 0]
            /\ pc' = [pc EXCEPT ![p] = "read"]
       ELSE /\ IF Retry(p)
               THEN /\ i' = [i EXCEPT ![p] = i[p] + 1]
                    /\ UNCHANGED <<pc, lockRes>>
               ELSE /\ i' = [i EXCEPT ![p] = 0]
                    /\ pc' = [pc EXCEPT ![p] = "read"]
                    /\ lockRes' = [lockRes EXCEPT ![p] = "gaveup"]
            /\ UNCHANGED <<lock, owner>>
    /\ UNCHANGED <<hcl, file, cfg, contents, ret, lastWriter, initLock, initFile, crashes>>

\* ioutil.ReadFile(p.config.OutputPath): the bytes (none when the file does
\* not exist), or an error that is returned.
ReadManifest(p) ==
    /\ pc[p] = "read"
    /\ \/ /\ contents' = [contents EXCEPT ![p] = file]
          /\ pc' = [pc EXCEPT ![p] = "write"]
          /\ ret' = ret
       \/ /\ contents' = contents
          /\ pc' = [pc EXCEPT ![p] = "cleanup"]
          /\ ret' = [ret EXCEPT ![p] = Return("source", TRUE, TRUE, "read")]
    /\ UNCHANGED <<hcl, lock, owner, file, cfg, i, lockRes, lastWriter, initLock, initFile, crashes>>

\* The JSON variant: unmarshal, merge, marshal, ioutil.WriteFile.
WriteJSON(p) ==
    /\ pc[p] = "write"
    /\ ~hcl
    /\ LET m == Unmarshal(contents[p]) IN
       IF m.kind = "error"
       THEN /\ ret' = [ret EXCEPT ![p] = Return("source", TRUE, TRUE, "parse")]
            /\ UNCHANGED <<file, lastWriter>>
       ELSE \/ /\ file' = Merge(p, m)
               /\ lastWriter' = p
               /\ ret' = [ret EXCEPT ![p] = Return("source", TRUE, TRUE, "nil")]
            \/ /\ ret' = [ret EXCEPT ![p] = Return("source", TRUE, TRUE, "write")]
               /\ UNCHANGED <<file, lastWriter>>
    /\ pc' = [pc EXCEPT ![p] = "cleanup"]
    /\ contents' = [contents EXCEPT ![p] = Absent]
    /\ UNCHANGED <<hcl, lock, owner, cfg, i, lockRes, initLock, initFile, crashes>>

\* The structured-text variant, Hcl2Manifest: parse, load the mapping,
\* setMapVal, re-emit, ioutil.WriteFile.
WriteHCL(p) ==
    /\ pc[p] = "write"
    /\ hcl
    /\ LET f == ParseHCL(contents[p]) IN
       IF f.kind = "error"
       THEN /\ ret' = [ret EXCEPT ![p] = Return("source", TRUE, TRUE, "parse")]
            /\ UNCHANGED <<file, lastWriter>>
       ELSE LET out == Hcl2Merge(p, f.attrs) IN
            IF ~out.ok
            THEN /\ ret' = [ret EXCEPT ![p] = Return("none", FALSE, FALSE, "panic")]
                 /\ UNCHANGED <<file, lastWriter>>
            ELSE \/ /\ file' = HclFile(out.m)
                    /\ lastWriter' = p
                    /\ ret' = [ret EXCEPT ![p] = Return("source", TRUE, TRUE, "nil")]
                 \/ /\ ret' = [ret EXCEPT ![p] = Return("source", TRUE, TRUE, "write")]
                    /\ UNCHANGED <<file, lastWriter>>
    /\ pc' = [pc EXCEPT ![p] = "cleanup"]
    /\ contents' = [contents EXCEPT ![p] = Absent]
    /\ UNCHANGED <<hcl, lock, owner, cfg, i, lockRes, initLock, initFile, crashes>>

\* A cleanup that removes the sentinel only when this invocation made it.
CleanupIfCreated(p) ==
    /\ pc[p] = "cleanup"
    /\ IF lockRes[p] = "created"
       THEN lock' = FALSE /\ owner' = 0
       ELSE UNCHANGED <<lock, owner>>
    /\ pc' = [pc EXCEPT ![p] = IF ret[p].err = "panic" THEN "panicked" ELSE "done"]
    /\ UNCHANGED <<hcl, file, cfg, i, lockRes, contents, ret, lastWriter, initLock, initFile, crashes>>

\* The deferred cleanup: os.Remove(lockFilename); then PostProcess returns,
\* or the panic goes on to the caller.
Cleanup(p) ==
    /\ pc[p] = "cleanup"
    /\ lock' = FALSE
    /\ owner' = 0
    /\ pc' = [pc EXCEPT ![p] = IF ret[p].err = "panic" THEN "panicked" ELSE "done"]
    /\ UNCHANGED <<hcl, file, cfg, i, lockRes, contents, ret, lastWriter, initLock, initFile, crashes>>

\* The process is killed: nothing of it runs any more, its defer included.
Crash(p) ==
    /\ pc[p] \in {"lock", "read", "write", "cleanup"}
    /\ crashes < MaxCrashes
    /\ crashes' = crashes + 1
    /\ pc' = [pc EXCEPT ![p] = "crashed"]
    /\ i' = [i EXCEPT ![p] = 0]
    /\ contents' = [contents EXCEPT ![p] = Absent]
    /\ ret' = [ret EXCEPT ![p] = NoReturn]
    /\ UNCHANGED <<hcl, lock, owner, file, cfg, lockRes, lastWriter, initLock, initFile>>

\* Invocations of one run (one run identifier, no -force) on one output path.
Next ==
    \E p \in Procs :
        \/ StartPlain(p)
        \/ LockAttempt(p)
        \/ ReadManifest(p)
        \/ WriteJSON(p)
        \/ WriteHCL(p)
        \/ Cleanup(p)
        \/ Crash(p)

Spec == Init /\ [][Next]_vars

\* NMerge invocations of any run identifier, with and without -force, on a
\* JSON manifest.
InitMerge ==
    /\ hcl = FALSE
    /\ lock \in BOOLEAN
    /\ initLock = lock
    /\ owner = 0
    /\ file \in {Absent, Empty, Garbage, PriorManifest}
    /\ initFile = file
    /\ pc = [p \in Procs |-> "idle"]
    /\ cfg = [p \in Procs |-> NoConfig]
    /\ i = [p \in Procs |-> 0]
    /\ lockRes = [p \in Procs |-> "none"]
    /\ contents = [p \in Procs |-> Absent]
    /\ ret = [p \in Procs |-> NoReturn]
    /\ lastWriter = 0
    /\ crashes = 0

NextMerge ==
    \E p \in 1..NMerge :
        \/ Start(p)
        \/ LockAttempt(p)
        \/ ReadManifest(p)
        \/ WriteJSON(p)
        \/ Cleanup(p)

SpecMerge == InitMerge /\ [][NextMerge]_vars

\* The structured-text manifest alone: invocations of one packer run after
\* another (a template's post-processors of successive builds), each with
\* its own build group, builder type and build name, any of which may be
\* empty, against a document that may already hold other attributes, a
\* manifest attribute of any type, and attributes that refer to variables.
NSeq == 2
Segments == {"", "a"}
BuildNames == {"", "a", "b"}
HclConfigs ==
    { [force |-> v.force, run |-> v.run, group |-> g, btype |-> t, bname |-> n,
       custom |-> v.custom] :
        v \in { [force |-> FALSE, run |-> "R1", custom |-> FALSE],
                [force |-> TRUE, run |-> "R2", custom |-> TRUE] },
        g \in Segments, t \in Segments, n \in BuildNames }

\* An entry written by an earlier run of packer.
PriorEntry == Map([artifact_id |-> Str(0), packer_run_uuid |-> Str("R0")])

HclDocs ==
    { HclFile([other |-> Lit("other", Str("x"))]),
      HclFile([other |-> Var]),
      HclFile([other |-> Lit("other", Str("x")), manifest |-> Var]),
      HclFile([other |-> Lit("other", Str("x")),
               manifest |-> Lit("other", Map([a |-> Map([a |-> Num(1), b |-> PriorEntry])]))]) }
    \cup { HclFile([manifest |-> Lit("canon", v)]) :
             v \in {Str("x"), Num(1), List(<<Bool(TRUE)>>)} }

InitHcl ==
    /\ hcl = TRUE
    /\ lock = FALSE
    /\ initLock = lock
    /\ owner = 0
    /\ file \in {Absent, Empty, Garbage} \cup HclDocs
    /\ initFile = file
    /\ pc = [p \in Procs |-> "idle"]
    /\ cfg = [p \in Procs |-> NoConfig]
    /\ i = [p \in Procs |-> 0]
    /\ lockRes = [p \in Procs |-> "none"]
    /\ contents = [p \in Procs |-> Absent]
    /\ ret = [p \in Procs |-> NoReturn]
    /\ lastWriter = 0
    /\ crashes = 0

\* PostProcess is entered once every earlier invocation has returned.
StartSeq(p) ==
    /\ \A q \in Procs : pc[q] \in {"idle", "done", "panicked"}
    /\ StartWith(p, HclConfigs)

NextHcl ==
    \E p \in 1..NSeq :
        \/ StartSeq(p)
        \/ LockAttempt(p)
        \/ ReadManifest(p)
        \/ WriteHCL(p)
        \/ Cleanup(p)

SpecHcl == InitHcl /\ [][NextHcl]_vars

-----------------------------------------------------------------------------
(* Properties *)

Created(p) == lockRes[p] = "created"
GaveUp(p) == lockRes[p] = "gaveup"
\* PostProcess has returned, or its panic has left it.
Returned(p) == pc[p] \in {"done", "panicked"}
\* lockFile was called and PostProcess has returned without error.
Succeeded(p) == pc[p] = "done" /\ ret[p].err = "nil"
\* The invocation has read the manifest and not yet written it.
InReadWrite(p) == pc[p] = "write"
\* The builds of the file hold p's record k times.
Count(p) ==
    IF file.kind = "json"
    THEN Cardinality({k \in DOMAIN file.builds : file.builds[k].artifact_id = p})
    ELSE 0

\* C1: two invocations that both created the sentinel never overlap their
\* read-merge-write sequences: never have both read the manifest with
\* neither having written it yet.
C1_Serialized ==
    \A p, q \in Procs :
        (p # q /\ Created(p) /\ Created(q)) => ~(InReadWrite(p) /\ InReadWrite(q))

\* C2: the manifest initially absent, JSON, no -force: once N invocations
\* have started and every one of them created the sentinel and returned
\* without error, builds has length N and holds each one's record once.
C2_NoLostWrites ==
    LET started == {p \in Procs : pc[p] # "idle"} IN
    (/\ ~hcl
     /\ initFile = Absent
     /\ started # {}
     /\ \A p \in started : Created(p) /\ Succeeded(p) /\ ~cfg[p].force)
    => /\ file.kind = "json"
       /\ Len(file.builds) = Cardinality(started)
       /\ \A p \in started : Count(p) = 1

C2_Witness ==
    /\ ~hcl
    /\ initFile = Absent
    /\ \A p \in Procs : Created(p) /\ Succeeded(p)
    /\ Len(file.builds) = NProcs

\* The step is p's successful ioutil.WriteFile of the manifest.
WroteNow(p) == pc[p] = "write" /\ pc'[p] = "cleanup" /\ ret'[p].err = "nil"

\* C3: force-reset law (JSON variant).  When the manifest an invocation loaded has a
\* last_run_uuid other than the invocation's run identifier and -force is
\* set, the builds it writes are exactly its one new record.
C3_ForceReset ==
    [][\A p \in Procs :
        (/\ ~hcl
         /\ WroteNow(p)
         /\ cfg[p].force
         /\ cfg[p].run # Unmarshal(contents[p]).last_run_uuid)
        => file'.builds = <<Artifact(p)>>]_vars

C3_Witness ==
    \E p, q \in Procs :
        /\ p # q
        /\ initFile = PriorManifest
        /\ Created(q) /\ Succeeded(q)
        /\ Created(p) /\ pc[p] = "cleanup" /\ ret[p].err = "nil"
        /\ cfg[p].force /\ cfg[p].run # cfg[q].run
        /\ lastWriter = p
        /\ file.builds = <<Artifact(p)>>

\* C4: no-truncation law (JSON variant).  Unless -force is set and the run identifier
\* differs from the loaded last_run_uuid, the builds written are the loaded
\* builds in their order followed by the one new record; and two invocations
\* run one after the other with one run identifier and no -force, on a
\* manifest that did not exist, leave builds of length 2 in insertion order.
C4_NoTruncation ==
    /\ [][\A p \in Procs :
            (/\ ~hcl
             /\ WroteNow(p)
             /\ ~(cfg[p].force /\ cfg[p].run # Unmarshal(contents[p]).last_run_uuid))
            => file'.builds = Unmarshal(contents[p]).builds \o <<Artifact(p)>>]_vars
    /\ [](\A p, q \in Procs :
            (/\ p # q
             /\ ~hcl
             /\ initFile = Absent
             /\ \A r \in Procs \ {p, q} : pc[r] = "idle"
             /\ Created(p) /\ Succeeded(p) /\ ~cfg[p].force
             /\ Created(q) /\ Succeeded(q) /\ ~cfg[q].force
             /\ cfg[p].run = cfg[q].run
             /\ lastWriter = q)
            => /\ file.builds = <<Artifact(p), Artifact(q)>>
               /\ file.last_run_uuid = cfg[q].run)

C4_Witness ==
    \E p, q \in Procs :
        /\ p # q
        /\ initFile = Absent
        /\ Created(p) /\ Succeeded(p)
        /\ Created(q) /\ Succeeded(q)
        /\ cfg[q].force /\ cfg[q].run = "R1" /\ cfg[p].run = "R1"
        /\ lastWriter = q
        /\ file.builds = <<Artifact(p), Artifact(q)>>

\* C5: in the JSON variant, after a successful write, and until the next one, the file's
\* last_run_uuid is the run identifier of the invocation that wrote last,
\* and so is the packer_run_uuid of the last element of builds.
C5_LastRunUUID ==
    (~hcl /\ lastWriter # 0) =>
        /\ file.kind = "json"
        /\ file.last_run_uuid = cfg[lastWriter].run
        /\ Len(file.builds) > 0
        /\ file.builds[Len(file.builds)].packer_run_uuid = cfg[lastWriter].run

C5_Witness ==
    /\ lastWriter # 0
    /\ ~cfg[lastWriter].force
    /\ Len(file.builds) >= 2
    /\ file.builds[1].packer_run_uuid # cfg[lastWriter].run
    /\ file.last_run_uuid = cfg[lastWriter].run

\* C6: whenever an invocation that has called lockFile returns (or panics),
\* on whatever path, the sentinel does not exist right after: its cleanup has
\* removed it, whether or not the invocation created it.
C6_ReleaseRemoves ==
    [][\A p \in Procs :
        (pc[p] \in {"read", "write", "cleanup"} /\ Returned(p)') => ~lock']_vars

C6_Witness ==
    \E p, q \in Procs :
        /\ hcl
        /\ pc[p] = "done" /\ GaveUp(p) /\ ret[p].err = "parse"
        /\ Created(q) /\ pc[q] = "write"
        /\ ~lock

\* The entry stored in the structured-text manifest at p's path.
EntryStored(p) ==
    /\ file.kind = "hcl"
    /\ "manifest" \in DOMAIN file.attrs
    /\ file.attrs["manifest"] =
         Lit("canon",
             Map((cfg[p].group :> Map((cfg[p].btype :> Map((cfg[p].bname :> Entry(p))))))))

\* C7: lockFile never waits for the sentinel to go away: each attempt can be
\* made whatever the sentinel's state, at most 3 are made, and lockFile gives
\* up exactly at its third failed attempt and goes on to the read.  With a
\* sentinel that was there before and a single invocation, the invocation
\* gives up and, when no I/O fails, has its record in the manifest when it
\* returns.
C7_Contention ==
    /\ [](\A p \in Procs :
            /\ i[p] < MaxAttempts
            /\ pc[p] = "lock" => ENABLED LockAttempt(p))
    /\ [][\A p \in Procs :
            (pc[p] = "lock" /\ GaveUp(p)')
            => (i[p] = MaxAttempts - 1 /\ lock /\ lock' /\ pc'[p] = "read")]_vars
    /\ []((initLock /\ \A q \in Procs \ {1} : pc[q] = "idle")
            => /\ (pc[1] \in {"read", "write", "cleanup"} => GaveUp(1))
               /\ (Succeeded(1) => /\ GaveUp(1)
                                   /\ IF hcl THEN EntryStored(1) ELSE Count(1) = 1))

C7_Witness ==
    /\ initLock
    /\ \A q \in Procs \ {1} : pc[q] = "idle"
    /\ ~hcl
    /\ Succeeded(1) /\ GaveUp(1)
    /\ Count(1) = 1

\* The existing sentinel was created by an invocation that was then killed.
Orphaned == owner # 0 /\ pc[owner] = "crashed"

C9_LostOnlyByGiveUp ==
    \A p \in Procs :
        (~hcl /\ Succeeded(p) /\ Count(p) = 0) => \E q \in Procs : GaveUp(q)

C9_Witness ==
    \E p, q \in Procs :
        /\ ~hcl
        /\ Created(p) /\ Succeeded(p)
        /\ GaveUp(q) /\ Succeeded(q)
        /\ \A r \in Procs \ {p, q} : pc[r] = "idle"
        /\ Count(p) = 0 \/ Count(q) = 0

\* C10: every return of PostProcess hands back the source artifact with the
\* keep flag set.
C10_SourceKept ==
    \A p \in Procs : pc[p] = "done" => (ret[p].artifact = "source" /\ ret[p].keep)

\* C11: a load failure is fatal and leaves the manifest untouched.  The step
\* that returns a read or a parse error writes nothing; content that does not
\* parse always ends in the parse error, in either variant; and the
\* invocation's record is not in the manifest.
C11_LoadFailureFatal ==
    /\ [][\A p \in Procs :
            /\ (ret[p].err = "none" /\ ret'[p].err \in {"read", "parse"})
               => (file' = file /\ lastWriter' = lastWriter /\ pc'[p] = "cleanup")
            /\ (pc[p] = "write" /\ contents[p] = Garbage /\ pc'[p] = "cleanup")
               => ret'[p].err = "parse"]_vars
    /\ [](\A p \in Procs :
            (pc[p] \in {"cleanup", "done"} /\ ret[p].err \in {"read", "parse"})
            => /\ ret[p].artifact = "source"
               /\ lastWriter # p
               /\ IF hcl THEN ~EntryStored(p) ELSE Count(p) = 0)

C11_Witness ==
    \E p \in Procs :
        /\ hcl
        /\ Created(p)
        /\ pc[p] = "done" /\ ret[p].err = "parse"
        /\ file = Garbage

\* C16: while an invocation that created the sentinel has not yet run its
\* cleanup, the sentinel exists.
C16_LockHeld ==
    \A p \in Procs :
        (Created(p) /\ pc[p] \in {"read", "write", "cleanup"}) => lock

\* C17: no invocation is killed; once every invocation that has started has
\* returned, and one of them at least reached lockFile, the sentinel does not
\* exist, even when it was there before the first invocation started.
C17_Quiescence ==
    (/\ crashes = 0
     /\ \A p \in Procs : pc[p] = "idle" \/ Returned(p)
     /\ \E p \in Procs : lockRes[p] # "none")
    => ~lock

C17_Witness ==
    /\ initLock
    /\ crashes = 0
    /\ \A p \in Procs : Returned(p) /\ GaveUp(p)
    /\ ~lock

-----------------------------------------------------------------------------
(* The structured-text variant *)

\* Invocation p takes the step that ends Hcl2Manifest on a document that parsed.
HclStep(p) ==
    /\ hcl /\ pc[p] = "write" /\ pc'[p] = "cleanup"
    /\ ParseHCL(contents[p]).kind = "hcl"

\* The attributes p loaded.
Loaded(p) == ParseHCL(contents[p]).attrs

\* The keys p's entry is stored under.
Triple(p) == <<cfg[p].group, cfg[p].btype, cfg[p].bname>>

\* The manifest attribute is absent or does not evaluate to a mapping.
NoMapping(attrs) ==
    IF "manifest" \notin DOMAIN attrs THEN TRUE
    ELSE IF attrs["manifest"].e = "var" THEN TRUE
    ELSE attrs["manifest"].val.t # "map"

\* Every attribute but manifest is a constant.
OthersEvaluate(attrs) == \A k \in DOMAIN attrs \ {"manifest"} : attrs[k].e = "lit"

\* C12: whenever the existing document parses but its manifest attribute is
\* absent or does not evaluate to a mapping, the invocation goes on with an
\* empty mapping and completes the write: it does not fail in Hcl2Manifest,
\* and the manifest it writes holds its entry and nothing else.  (Stated for
\* documents whose other attributes are constants.)
C12_EmptyMappingUsed ==
    [][\A p \in Procs :
        (HclStep(p) /\ NoMapping(Loaded(p)) /\ OthersEvaluate(Loaded(p)))
        => /\ ret'[p].err \in {"nil", "write"}
           /\ ret'[p].err = "nil"
              => file'.attrs["manifest"] =
                   Lit("canon", Map(setMapVal(EmptyMap, Entry(p), Triple(p)).m))]_vars

\* The value found in v by following path, or Missing.
Missing == [t |-> "missing"]
RECURSIVE Lookup(_, _)
Lookup(v, path) ==
    IF path = <<>> THEN v
    ELSE IF v.t = "map"
         THEN IF path[1] \in DOMAIN v.m THEN Lookup(v.m[path[1]], Tail(path)) ELSE Missing
         ELSE Missing

\* v holds no mapping with the empty string as a key, at any depth.
RECURSIVE NoEmptyKey(_)
NoEmptyKey(v) ==
    IF v.t = "map"
    THEN "" \notin DOMAIN v.m /\ \A k \in DOMAIN v.m : NoEmptyKey(v.m[k])
    ELSE TRUE

NonEmpty(keys) == SelectSeq(keys, LAMBDA k : k # "")

\* Where the code stores p's entry: under the build name, inside the maps
\* named by the non-empty ones of group and builder type.
StorePath(p) == NonEmpty(<<cfg[p].group, cfg[p].btype>>) \o <<cfg[p].bname>>

\* The mapping p starts from (its document has a mapping or no manifest).
OldManifest(p) ==
    IF "manifest" \in DOMAIN Loaded(p) THEN Loaded(p)["manifest"].val ELSE Map(EmptyMap)

\* p's document can be merged into: every attribute is a constant and the
\* manifest attribute, if there is one, is a mapping.
Mergeable(p) ==
    /\ \A k \in DOMAIN Loaded(p) : Loaded(p)[k].e = "lit"
    /\ OldManifest(p).t = "map"

\* A value on p's path is there already and is no mapping.
Blocked(p) ==
    \E k \in 1..(Len(StorePath(p)) - 1) :
        Lookup(OldManifest(p), SubSeq(StorePath(p), 1, k)).t \notin {"map", "missing"}

\* C13 (as stated): for every triple, empty segments included, a completed
\* write has the entry at the path made of the non-empty segments in order,
\* and creates no key that is the empty string.
C13_EmptySkipped ==
    [][\A p \in Procs :
        (HclStep(p) /\ Mergeable(p) /\ ret'[p].err = "nil")
        => /\ Lookup(file'.attrs["manifest"].val, NonEmpty(Triple(p))) = Entry(p)
           /\ NoEmptyKey(OldManifest(p)) => NoEmptyKey(file'.attrs["manifest"].val)]_vars

\* C13 (amended): the entry is stored under the build name, also when the
\* build name is empty (which creates the key ""), inside the mappings named
\* by the non-empty ones of group and builder type in that order; no empty
\* key is created when the build name is not empty; and when a value already
\* on that path is no mapping the invocation panics and writes nothing.
C13_LastKeyKept ==
    [][\A p \in Procs :
        (HclStep(p) /\ Mergeable(p))
        => IF Blocked(p)
           THEN ret'[p].err = "panic" /\ file' = file
           ELSE /\ ret'[p].err \in {"nil", "write"}
                /\ ret'[p].err = "nil"
                   => /\ Lookup(file'.attrs["manifest"].val, StorePath(p)) = Entry(p)
                      /\ (cfg[p].bname # "" /\ NoEmptyKey(OldManifest(p)))
                         => NoEmptyKey(file'.attrs["manifest"].val)]_vars

\* An entry was stored under an empty build name, below a skipped builder type.
C13_Witness ==
    \E p \in Procs :
        /\ hcl /\ Succeeded(p) /\ lastWriter = p /\ file.kind = "hcl"
        /\ cfg[p].group = "a" /\ cfg[p].btype = "" /\ cfg[p].bname = ""
        /\ Lookup(file.attrs["manifest"].val, <<"a", "">>) = Entry(p)

\* C14: when an invocation writes a document that parsed back, every
\* top-level attribute other than manifest is present with the value it had
\* in the document read, and the attribute names are the old ones plus
\* manifest.
C14_OthersPreserved ==
    [][\A p \in Procs :
        (HclStep(p) /\ ret'[p].err = "nil")
        => /\ file'.kind = "hcl"
           /\ DOMAIN file'.attrs = DOMAIN Loaded(p) \cup {"manifest"}
           /\ \A k \in DOMAIN Loaded(p) \ {"manifest"} :
                /\ Loaded(p)[k].e = "lit"
                /\ file'.attrs[k].e = "lit"
                /\ file'.attrs[k].val = Loaded(p)[k].val]_vars

\* A document with another attribute, not in the writer's form, was rewritten.
C14_Witness ==
    \E p \in Procs :
        /\ hcl /\ Succeeded(p) /\ lastWriter = p
        /\ initFile.kind = "hcl" /\ "other" \in DOMAIN initFile.attrs
        /\ initFile.attrs["other"] = Lit("other", Str("x"))
        /\ file.kind = "hcl" /\ "other" \in DOMAIN file.attrs
        /\ file.attrs["other"] = Lit("canon", Str("x"))

\* new differs from old on path only: at every level of the path the keys
\* are the old ones plus the next key of the path, and every other key has
\* the value it had.
FrameKept(old, new, path) ==
    \A k \in 0..(Len(path) - 1) :
        LET o == Lookup(old, SubSeq(path, 1, k))
            n == Lookup(new, SubSeq(path, 1, k))
        IN  /\ n.t = "map"
            /\ IF o.t = "map"
               THEN /\ DOMAIN n.m = DOMAIN o.m \cup {path[k + 1]}
                    /\ \A x \in DOMAIN o.m \ {path[k + 1]} : n.m[x] = o.m[x]
               ELSE DOMAIN n.m = {path[k + 1]}

\* q ran before p with the same triple, and its entry is what p finds.
SameTripleBefore(q, p) ==
    /\ q # p /\ Returned(q) /\ lockRes[q] # "none"
    /\ Triple(q) = Triple(p)
    /\ Lookup(OldManifest(p), StorePath(p)) = Entry(q)

\* C15: when an invocation finds at its path the entry of an earlier
\* invocation with the same triple, its write leaves exactly its own entry
\* there (no key of the first survives) and every other key at every level
\* of the mapping unchanged.
C15_LeafOverwritten ==
    [][\A p \in Procs :
        (HclStep(p) /\ Mergeable(p) /\ \E q \in Procs : SameTripleBefore(q, p))
        => /\ ret'[p].err \in {"nil", "write"}
           /\ ret'[p].err = "nil"
              => /\ Lookup(file'.attrs["manifest"].val, StorePath(p)) = Entry(p)
                 /\ FrameKept(OldManifest(p), file'.attrs["manifest"].val, StorePath(p))]_vars

\* The second of two invocations with one triple has written: the first had
\* custom data, the second has none, and the path has a sibling key.
C15_Witness ==
    \E p, q \in Procs :
        /\ hcl /\ p # q /\ Succeeded(p) /\ Succeeded(q) /\ lastWriter = p
        /\ Triple(p) = Triple(q) /\ cfg[q].custom /\ ~cfg[p].custom
        /\ Triple(p) = <<"a", "", "a">>
        /\ file.kind = "hcl"
        /\ Lookup(file.attrs["manifest"].val, <<"a", "a">>) = Entry(p)
        /\ Lookup(file.attrs["manifest"].val, <<"a", "b">>) = PriorEntry

\* The invocations that got as far as lockFile.
Ran == {p \in Procs : lockRes[p] # "none"}

\* C18: after invocations with pairwise different triples have all run and
\* written, every one's entry is at its own path, unmodified.
C18_NoClobber ==
    ( /\ hcl
      /\ \A p \in Ran : Succeeded(p)
      /\ \A p, q \in Ran : p # q => Triple(p) # Triple(q) )
    => \A p \in Ran : Lookup(file.attrs["manifest"].val, StorePath(p)) = Entry(p)

\* The packer_run_uuid values stored in v, at any depth.
RECURSIVE StoredRuns(_)
StoredRuns(v) ==
    IF v.t = "map"
    THEN (IF "packer_run_uuid" \in DOMAIN v.m /\ v.m["packer_run_uuid"].t = "str"
          THEN {v.m["packer_run_uuid"].s} ELSE {})
         \cup UNION {StoredRuns(v.m[k]) : k \in DOMAIN v.m}
    ELSE {}

====
